---- MODULE Spec2Model ----
(***************************************************************************)
(* Model of the wgpu_cube frame cycle: the Render State object             *)
(* (src/src/state.rs), the winit event-loop callback that drives it        *)
(* (src/src/lib.rs) and the cube geometry tables (src/src/vertex.rs).      *)
(*                                                                         *)
(* Two specifications are given.                                           *)
(*   Spec      the program: State::new followed by the event-loop callback *)
(*             of run(), one action per event kind the callback matches.   *)
(*   SpecState the public methods of State (resize, input, update, render) *)
(*             called in any order by an arbitrary caller.                 *)
(*                                                                         *)
(* The camera module (crate::camera) is not part of the sources at hand;   *)
(* Camera, CameraController and CameraUniform are modelled from their      *)
(* description in the specification document.                              *)
(***************************************************************************)
EXTENDS Integers, Sequences, FiniteSets, TLC

(* ---------------------------------------------------------------------- *)
(* Bounds of the model                                                     *)
(* ---------------------------------------------------------------------- *)

\* window dimensions delivered by the window system range over 0..MaxDim
MaxDim == 2

\* the eye is followed at most MaxTravel controller steps away from where
\* State::new puts it
MaxTravel == 1

(* ---------------------------------------------------------------------- *)
(* Geometry tables (vertex.rs)                                             *)
(* ---------------------------------------------------------------------- *)

Vtx(p, t) == [position |-> p, tex_coords |-> t]

\* VERTICES, 1-based here; index i of the source is VERTICES[i + 1]
VERTICES ==
  << Vtx(<<-1,  1, -1>>, <<0, 0>>),
     Vtx(<< 1,  1, -1>>, <<1, 0>>),
     Vtx(<<-1, -1, -1>>, <<0, 1>>),
     Vtx(<< 1, -1, -1>>, <<1, 1>>),
     Vtx(<<-1,  1,  1>>, <<1, 0>>),
     Vtx(<< 1,  1,  1>>, <<0, 0>>),
     Vtx(<<-1, -1,  1>>, <<1, 1>>),
     Vtx(<< 1, -1,  1>>, <<0, 1>>) >>

\* a variant of INDICES whose first triangle is wound the other way round
INDICES_flipped ==
  << 0, 2, 1,   2, 1, 3,
     4, 0, 6,   6, 0, 2,
     7, 5, 6,   6, 5, 4,
     3, 1, 7,   7, 1, 5,
     4, 5, 0,   0, 5, 1,
     3, 7, 2,   2, 7, 6 >>

INDICES ==
  << 0, 1, 2,   2, 1, 3,
     4, 0, 6,   6, 0, 2,
     7, 5, 6,   6, 5, 4,
     3, 1, 7,   7, 1, 5,
     4, 5, 0,   0, 5, 1,
     3, 7, 2,   2, 7, 6 >>

(* ---------------------------------------------------------------------- *)
(* Arithmetic helpers                                                      *)
(* ---------------------------------------------------------------------- *)

RECURSIVE Gcd(_, _)
Gcd(a, b) == IF b = 0 THEN a ELSE Gcd(b, a % b)

\* `a as f32 / b as f32` for b > 0.  The quotient is kept as the fraction in
\* lowest terms: two f32 quotients of small integers are equal exactly when
\* these fractions are.
F32Div(a, b) == [num |-> a \div Gcd(a, b), den |-> b \div Gcd(a, b)]

PhysicalSize(w, h) == [width |-> w, height |-> h]

(* ---------------------------------------------------------------------- *)
(* Camera, CameraController, CameraUniform (crate::camera)                 *)
(*                                                                         *)
(* The eye is kept in coordinates relative to the look-at target:          *)
(*   dist  the eye-to-target distance, in whole controller steps (one step *)
(*         is the controller speed); the fraction of a step left over is   *)
(*         constant, because every radial move is exactly one step;        *)
(*   yaw   the net number of lateral steps taken (right minus left); a     *)
(*         lateral step keeps the distance.                                *)
(* ---------------------------------------------------------------------- *)

\* distance of the initial eye (0, 4, 6) from the target (0, 0, 0), in steps
\* of the controller speed 0.2: floor(sqrt(52) / 0.2)
InitDist == 36

Eye(d, y) == [dist |-> d, yaw |-> y]

Camera(eye, aspect) == [eye |-> eye, aspect |-> aspect]

\* CameraController::new(speed): no key is held
CameraController_new ==
  [ is_forward_pressed  |-> FALSE,
    is_backward_pressed |-> FALSE,
    is_left_pressed     |-> FALSE,
    is_right_pressed    |-> FALSE ]

MovementKeys == {"W", "Up", "S", "Down", "A", "Left", "D", "Right"}

\* process_events: a key press or release of a movement key sets or clears
\* its flag and is consumed; anything else is not consumed and has no effect
process_events(c, key, pressed) ==
  CASE key \in {"W", "Up"}    -> [controller |-> [c EXCEPT !.is_forward_pressed  = pressed], consumed |-> TRUE]
    [] key \in {"S", "Down"}  -> [controller |-> [c EXCEPT !.is_backward_pressed = pressed], consumed |-> TRUE]
    [] key \in {"A", "Left"}  -> [controller |-> [c EXCEPT !.is_left_pressed     = pressed], consumed |-> TRUE]
    [] key \in {"D", "Right"} -> [controller |-> [c EXCEPT !.is_right_pressed    = pressed], consumed |-> TRUE]
    [] OTHER                  -> [controller |-> c, consumed |-> FALSE]

\* update_camera: forward only while the distance exceeds the speed
\* (dist >= 1 whole step, the left-over fraction being positive), backward
\* unconditionally, then right and left, each keeping the distance
update_camera(c, camera) ==
  LET e0 == camera.eye
      e1 == IF c.is_forward_pressed /\ e0.dist >= 1
              THEN Eye(e0.dist - 1, e0.yaw) ELSE e0
      e2 == IF c.is_backward_pressed THEN Eye(e1.dist + 1, e1.yaw) ELSE e1
      e3 == IF c.is_right_pressed THEN Eye(e2.dist, e2.yaw + 1) ELSE e2
      e4 == IF c.is_left_pressed  THEN Eye(e3.dist, e3.yaw - 1) ELSE e3
  IN  [camera EXCEPT !.eye = e4]

\* CameraUniform::update_view_proj: the view-projection matrix of a camera.
\* With target, up, fovy, znear and zfar fixed, the matrix is determined by
\* the eye (view part) and by the horizontal scale of the projection, which
\* is cot(fovy / 2) / aspect: kept as the reciprocal of the aspect.
update_view_proj(camera) ==
  [ view_eye |-> camera.eye,
    x_scale  |-> [num |-> camera.aspect.den, den |-> camera.aspect.num] ]

(* ---------------------------------------------------------------------- *)
(* State (state.rs)                                                        *)
(*                                                                         *)
(* The methods of State are operators on a "world" record w:               *)
(*   w.state            the fields of the State struct that change or are  *)
(*                      read by the methods; the vertex and index buffers  *)
(*                      are created from VERTICES and INDICES and never    *)
(*                      written again, so their contents are those tables  *)
(*   w.surface          the configuration last applied to the surface by   *)
(*                      Surface::configure                                 *)
(*   w.calls            the calls made and device commands issued since    *)
(*                      the current handler (or API call) began, in order  *)
(*   w.result           what the last render returned                      *)
(*   w.control_flow     the event loop's ControlFlow                       *)
(*   w.redraw_requested whether Window::request_redraw is pending          *)
(*   w.cam_at_update    history: the camera as the most recent update left *)
(*                      it (as State::new built it, before any update)     *)
(*   w.at_render        history: the State and surface configuration at    *)
(*                      the moment render was entered by this handler      *)
(* ---------------------------------------------------------------------- *)

VARIABLES state, surface, calls, control_flow, redraw_requested,
          cam_at_update, at_render, event

vars == << state, surface, calls, control_flow, redraw_requested,
           cam_at_update, at_render, event >>

Call(w, op, arg) == [w EXCEPT !.calls = Append(@, [op |-> op, arg |-> arg])]

\* State::new(window) for a window of inner size `size`
new(size) ==
  LET config == [width |-> size.width, height |-> size.height,
                 present_mode |-> "Fifo"]
      camera == Camera(Eye(InitDist, 0), F32Div(config.width, config.height))
      camera_uniform == update_view_proj(camera)
  IN  [ state |->
          [ size              |-> size,
            config            |-> config,
            num_indices       |-> Len(INDICES),
            camera            |-> camera,
            camera_controller |-> CameraController_new,
            camera_uniform    |-> camera_uniform,
            camera_buffer     |-> camera_uniform ],
        surface          |-> [width |-> config.width, height |-> config.height],
        calls            |-> << [op |-> "configure",
                                 arg |-> <<config.width, config.height>>] >>,
        result           |-> "None",
        control_flow     |-> "Poll",
        redraw_requested |-> FALSE,
        cam_at_update    |-> camera,
        at_render        |-> << >> ]

\* a variant of resize that only guards against a zero width
resize_guards_width_only(w, new_size) ==
  LET c == Call(w, "resize", <<new_size.width, new_size.height>>)
  IN  IF new_size.width > 0
        THEN LET config == [c.state.config EXCEPT !.width  = new_size.width,
                                                  !.height = new_size.height]
                 s1 == [c.state EXCEPT !.size = new_size, !.config = config]
                 c1 == Call([c EXCEPT !.state = s1,
                                      !.surface = [width  |-> config.width,
                                                   height |-> config.height]],
                            "configure", <<config.width, config.height>>)
             IN  [c1 EXCEPT !.state.camera.aspect =
                               F32Div(config.width, config.height)]
        ELSE c

\* a variant of resize that divides height by width
resize_inverse_aspect(w, new_size) ==
  LET c == Call(w, "resize", <<new_size.width, new_size.height>>)
  IN  IF new_size.width > 0 /\ new_size.height > 0
        THEN LET config == [c.state.config EXCEPT !.width  = new_size.width,
                                                  !.height = new_size.height]
                 s1 == [c.state EXCEPT !.size = new_size, !.config = config]
                 c1 == Call([c EXCEPT !.state = s1,
                                      !.surface = [width  |-> config.width,
                                                   height |-> config.height]],
                            "configure", <<config.width, config.height>>)
             IN  [c1 EXCEPT !.state.camera.aspect =
                               F32Div(config.height, config.width)]
        ELSE c

\* State::resize(new_size)
resize(w, new_size) ==
  LET c == Call(w, "resize", <<new_size.width, new_size.height>>)
  IN  IF new_size.width > 0 /\ new_size.height > 0
        THEN LET config == [c.state.config EXCEPT !.width  = new_size.width,
                                                  !.height = new_size.height]
                 s1 == [c.state EXCEPT !.size = new_size, !.config = config]
                 c1 == Call([c EXCEPT !.state = s1,
                                      !.surface = [width  |-> config.width,
                                                   height |-> config.height]],
                            "configure", <<config.width, config.height>>)
             IN  [c1 EXCEPT !.state.camera.aspect =
                               F32Div(config.width, config.height)]
        ELSE c

\* State::input(event) for a keyboard event; the value returned is logged
input(w, key, pressed) ==
  LET r == process_events(w.state.camera_controller, key, pressed)
  IN  Call([w EXCEPT !.state.camera_controller = r.controller],
           "input", <<r.consumed>>)

\* a variant of update that recomputes the uniform but does not upload it
update_without_write(w) ==
  LET c0 == Call(w, "update", << >>)
      camera == update_camera(c0.state.camera_controller, c0.state.camera)
      c1 == Call([c0 EXCEPT !.state.camera = camera], "update_camera", << >>)
      uniform == update_view_proj(c1.state.camera)
  IN  Call([c1 EXCEPT !.state.camera_uniform = uniform,
                      !.cam_at_update = c1.state.camera],
           "update_view_proj", << >>)

\* State::update()
update(w) ==
  LET c0 == Call(w, "update", << >>)
      camera == update_camera(c0.state.camera_controller, c0.state.camera)
      c1 == Call([c0 EXCEPT !.state.camera = camera], "update_camera", << >>)
      uniform == update_view_proj(c1.state.camera)
      c2 == Call([c1 EXCEPT !.state.camera_uniform = uniform],
                 "update_view_proj", << >>)
  IN  Call([c2 EXCEPT !.state.camera_buffer = c2.state.camera_uniform,
                      !.cam_at_update = c2.state.camera],
           "write_buffer", << >>)

\* the outcomes of Surface::get_current_texture
AcquireErrors == {"Lost", "OutOfMemory", "Timeout", "Outdated"}
Acquired == {"Ok"} \cup AcquireErrors

\* a variant of render that draws one index too few
render_short_draw(w, acquired) ==
  LET c0 == Call([w EXCEPT !.at_render =
                     << [state |-> w.state, surface |-> w.surface] >>],
                 "render", << >>)
      c1 == Call(c0, "get_current_texture", <<acquired>>)
  IN  IF acquired # "Ok"
        THEN [c1 EXCEPT !.result = acquired]
        ELSE LET p1 == Call(c1, "begin_render_pass", <<"Clear">>)
                 p2 == Call(p1, "set_pipeline", << >>)
                 p3 == Call(p2, "set_bind_group", <<0, "diffuse_bind_group">>)
                 p4 == Call(p3, "set_bind_group", <<1, "camera_bind_group">>)
                 p5 == Call(p4, "set_vertex_buffer", <<0>>)
                 p6 == Call(p5, "set_index_buffer", <<"Uint16">>)
                 p7 == Call(p6, "draw_indexed",
                            <<0, w.state.num_indices - 1, 0, 0, 1>>)
                 p8 == Call(p7, "submit", << >>)
                 p9 == Call(p8, "present", << >>)
             IN  [p9 EXCEPT !.result = "Ok"]

\* State::render(), the surface answering get_current_texture with `acquired`
render(w, acquired) ==
  LET c0 == Call([w EXCEPT !.at_render =
                     << [state |-> w.state, surface |-> w.surface] >>],
                 "render", << >>)
      c1 == Call(c0, "get_current_texture", <<acquired>>)
  IN  IF acquired # "Ok"
        THEN [c1 EXCEPT !.result = acquired]
        ELSE LET p1 == Call(c1, "begin_render_pass", <<"Clear">>)
                 p2 == Call(p1, "set_pipeline", << >>)
                 p3 == Call(p2, "set_bind_group", <<0, "diffuse_bind_group">>)
                 p4 == Call(p3, "set_bind_group", <<1, "camera_bind_group">>)
                 p5 == Call(p4, "set_vertex_buffer", <<0>>)
                 p6 == Call(p5, "set_index_buffer", <<"Uint16">>)
                 p7 == Call(p6, "draw_indexed",
                            <<0, w.state.num_indices, 0, 0, 1>>)
                 p8 == Call(p7, "submit", << >>)
                 p9 == Call(p8, "present", << >>)
             IN  [p9 EXCEPT !.result = "Ok"]

(* ---------------------------------------------------------------------- *)
(* The event-loop callback of run() (lib.rs)                               *)
(*                                                                         *)
(* An event is a record: its type, the size a Resized or                   *)
(* ScaleFactorChanged carries, the key and ElementState a KeyboardInput    *)
(* carries, and, for RedrawRequested, the answer the surface gives to the  *)
(* acquisition made during that tick.                                      *)
(* ---------------------------------------------------------------------- *)

Ev(type, size, key, pressed, acquired) ==
  [type |-> type, size |-> size, key |-> key, pressed |-> pressed,
   acquired |-> acquired]

NoSize == PhysicalSize(0, 0)

Keys == MovementKeys \cup {"Escape", "Space"}

\* a variant of the RedrawRequested arm that renders before it updates
redraw_render_first(w, acquired) ==
  LET r == render(w, acquired)
      u == update(r)
  IN  CASE u.result = "Ok"          -> u
        [] u.result = "Lost"        -> resize(u, u.state.size)
        [] u.result = "OutOfMemory" -> [u EXCEPT !.control_flow = "Exit"]
        [] OTHER                    -> Call(u, "log::error", <<u.result>>)

\* a variant of the RedrawRequested arm that treats every acquisition error
\* as a lost surface
redraw_always_reconfigure(w, acquired) ==
  LET u == update(w)
      r == render(u, acquired)
  IN  CASE r.result = "Ok"          -> r
        [] r.result = "OutOfMemory" -> [r EXCEPT !.control_flow = "Exit"]
        [] OTHER                    -> resize(r, r.state.size)

\* a variant of the RedrawRequested arm that reconfigures before it exits
redraw_oom_reconfigure(w, acquired) ==
  LET u == update(w)
      r == render(u, acquired)
  IN  CASE r.result = "Ok"          -> r
        [] r.result = "Lost"        -> resize(r, r.state.size)
        [] r.result = "OutOfMemory" ->
             [resize(r, r.state.size) EXCEPT !.control_flow = "Exit"]
        [] OTHER                    -> Call(r, "log::error", <<r.result>>)

\* a variant of the RedrawRequested arm that only logs a lost surface
redraw_lost_logged(w, acquired) ==
  LET u == update(w)
      r == render(u, acquired)
  IN  CASE r.result = "Ok"          -> r
        [] r.result = "OutOfMemory" -> [r EXCEPT !.control_flow = "Exit"]
        [] OTHER                    -> Call(r, "log::error", <<r.result>>)

\* the Event::RedrawRequested arm: update, render, then the match on what
\* render returned
redraw(w, acquired) ==
  LET u == update(w)
      r == render(u, acquired)
  IN  CASE r.result = "Ok"          -> r
        [] r.result = "Lost"        -> resize(r, r.state.size)
        [] r.result = "OutOfMemory" -> [r EXCEPT !.control_flow = "Exit"]
        [] OTHER                    -> Call(r, "log::error", <<r.result>>)

\* the Event::WindowEvent arm
window_event(w, ev) ==
  CASE ev.type = "CloseRequested" -> [w EXCEPT !.control_flow = "Exit"]
    [] ev.type = "KeyboardInput" /\ ev.pressed /\ ev.key = "Escape" ->
         [w EXCEPT !.control_flow = "Exit"]
    [] ev.type = "Resized"            -> resize(w, ev.size)
    [] ev.type = "ScaleFactorChanged" -> resize(w, ev.size)
    [] OTHER                          -> w

\* the closure passed to event_loop.run
callback(w, ev) ==
  CASE ev.type \in {"CloseRequested", "KeyboardInput", "Resized",
                    "ScaleFactorChanged", "Focused"} -> window_event(w, ev)
    [] ev.type = "RedrawRequested"   -> redraw(w, ev.acquired)
    [] ev.type = "MainEventsCleared" -> [w EXCEPT !.redraw_requested = TRUE]
    [] OTHER                         -> w

(* ---------------------------------------------------------------------- *)
(* State machine                                                           *)
(* ---------------------------------------------------------------------- *)

\* the world a handler starts from: the current variables, an empty call log
Begin ==
  [ state |-> state, surface |-> surface, calls |-> << >>, result |-> "None",
    control_flow |-> control_flow, redraw_requested |-> redraw_requested,
    cam_at_update |-> cam_at_update, at_render |-> << >> ]

Commit(w) ==
  /\ state' = w.state
  /\ surface' = w.surface
  /\ calls' = w.calls
  /\ control_flow' = w.control_flow
  /\ redraw_requested' = w.redraw_requested
  /\ cam_at_update' = w.cam_at_update
  /\ at_render' = w.at_render

Abs(n) == IF n < 0 THEN -n ELSE n

\* the eye stays within the part of space the model follows: at most
\* MaxTravel steps, radial and lateral together, from its initial position
InBounds(w) ==
  LET e == w.state.camera.eye
  IN  Abs(e.dist - InitDist) + Abs(e.yaw) <= MaxTravel

\* the window is created with a non-zero inner size: State::new configures
\* the surface with it, which the device rejects for a zero dimension
Init ==
  \E width \in 1..MaxDim, height \in 1..MaxDim :
     LET w == new(PhysicalSize(width, height))
     IN  /\ state = w.state
         /\ surface = w.surface
         /\ calls = w.calls
         /\ control_flow = w.control_flow
         /\ redraw_requested = w.redraw_requested
         /\ cam_at_update = w.cam_at_update
         /\ at_render = w.at_render
         /\ event = Ev("Init", PhysicalSize(width, height), "None", FALSE, "None")

\* the loop is running: nothing is delivered to the callback once it has set
\* ControlFlow::Exit
Running == control_flow # "Exit"

\* the window system's side of delivering an event: a RedrawRequested uses up
\* the pending redraw request
Window(w, ev) ==
  IF ev.type = "RedrawRequested" THEN [w EXCEPT !.redraw_requested = FALSE]
                                 ELSE w

\* the callback runs to completion for one event
Deliver(ev) ==
  \E w \in {callback(Window(Begin, ev), ev)} :
     /\ InBounds(w)
     /\ Commit(w)
     /\ event' = ev

CloseRequested ==
  /\ Running
  /\ Deliver(Ev("CloseRequested", NoSize, "None", FALSE, "None"))

KeyboardInput ==
  \E key \in Keys, pressed \in BOOLEAN :
     /\ Running
     /\ Deliver(Ev("KeyboardInput", NoSize, key, pressed, "None"))

Resized ==
  \E width \in 0..MaxDim, height \in 0..MaxDim :
     /\ Running
     /\ Deliver(Ev("Resized", PhysicalSize(width, height), "None", FALSE,
                   "None"))

ScaleFactorChanged ==
  \E width \in 0..MaxDim, height \in 0..MaxDim :
     /\ Running
     /\ Deliver(Ev("ScaleFactorChanged", PhysicalSize(width, height), "None",
                   FALSE, "None"))

\* a window event the callback has no arm for
Focused ==
  /\ Running
  /\ Deliver(Ev("Focused", NoSize, "None", FALSE, "None"))

\* a frame tick; the surface answers this tick's acquisition with `acquired`.
\* The window system may ask for a redraw whether or not request_redraw is
\* pending, so the pending request is no guard here.
RedrawRequested ==
  \E acquired \in Acquired :
     /\ Running
     /\ Deliver(Ev("RedrawRequested", NoSize, "None", FALSE, acquired))

MainEventsCleared ==
  /\ Running
  /\ Deliver(Ev("MainEventsCleared", NoSize, "None", FALSE, "None"))

\* an event the callback has no arm for
RedrawEventsCleared ==
  /\ Running
  /\ Deliver(Ev("RedrawEventsCleared", NoSize, "None", FALSE, "None"))

Next ==
  \/ CloseRequested
  \/ KeyboardInput
  \/ Resized
  \/ ScaleFactorChanged
  \/ Focused
  \/ RedrawRequested
  \/ MainEventsCleared
  \/ RedrawEventsCleared

Spec == Init /\ [][Next]_vars

(* ---------------------------------------------------------------------- *)
(* The methods of State called by an arbitrary caller                      *)
(* ---------------------------------------------------------------------- *)

\* Each action is one call of a method, leaving the world w.

ApiResize ==
  \E width \in 0..MaxDim, height \in 0..MaxDim :
     \E w \in {resize(Begin, PhysicalSize(width, height))} :
        /\ InBounds(w)
        /\ Commit(w)
        /\ event' = Ev("resize", PhysicalSize(width, height), "None", FALSE,
                       "None")

\* the keys an arbitrary caller is taken to pass: each direction by its letter,
\* one direction also by its arrow key, and a key the controller ignores.
\* The key passed is not kept in `event`: what it did is in the controller.
ApiKeys == {"W", "S", "A", "D", "Up", "Space"}

ApiInput ==
  \E key \in ApiKeys, pressed \in BOOLEAN :
     \E w \in {input(Begin, key, pressed)} :
        /\ InBounds(w)
        /\ Commit(w)
        /\ event' = Ev("input", NoSize, "None", FALSE, "None")

ApiUpdate ==
  \E w \in {update(Begin)} :
     /\ InBounds(w)
     /\ Commit(w)
     /\ event' = Ev("update", NoSize, "None", FALSE, "None")

ApiRender ==
  \E acquired \in Acquired :
     \E w \in {render(Begin, acquired)} :
        /\ InBounds(w)
        /\ Commit(w)
        /\ event' = Ev("render", NoSize, "None", FALSE, acquired)

NextState ==
  \/ ApiResize
  \/ ApiInput
  \/ ApiUpdate
  \/ ApiRender

SpecState == Init /\ [][NextState]_vars

(* ---------------------------------------------------------------------- *)
(* Reading the call log                                                    *)
(* ---------------------------------------------------------------------- *)

\* the positions in the log `c` of the entries for `op`
At(c, op) == {i \in 1..Len(c) : c[i].op = op}

Times(c, op) == Cardinality(At(c, op))

\* every entry for `a` comes before every entry for `b`
Before(c, a, b) == \A i \in At(c, a), j \in At(c, b) : i < j

IsZero(size) == size.width = 0 \/ size.height = 0

\* the controller flag a movement key stands for
KeyFlag(c, key) ==
  CASE key \in {"W", "Up"}    -> c.is_forward_pressed
    [] key \in {"S", "Down"}  -> c.is_backward_pressed
    [] key \in {"A", "Left"}  -> c.is_left_pressed
    [] key \in {"D", "Right"} -> c.is_right_pressed

(* ---------------------------------------------------------------------- *)
(* The cube as the pipeline sees it                                        *)
(* ---------------------------------------------------------------------- *)

\* PrimitiveState of the render pipeline: which winding is the front of a
\* triangle, and which side is culled
front_face == "Ccw"
cull_mode == "Back"

Position(i) == VERTICES[i + 1].position

Sub(a, b) == <<a[1] - b[1], a[2] - b[2], a[3] - b[3]>>

Cross(a, b) == << a[2] * b[3] - a[3] * b[2],
                  a[3] * b[1] - a[1] * b[3],
                  a[1] * b[2] - a[2] * b[1] >>

\* TriangleList topology: triangle t (from 0) is made of the indices
\* 3t, 3t + 1, 3t + 2 of the index buffer
Triangle(t) == <<INDICES[3 * t + 1], INDICES[3 * t + 2], INDICES[3 * t + 3]>>

\* the triangles a draw of the indices 0..n covers
Triangles(n) == 0 .. (n \div 3) - 1

\* (v1 - v0) x (v2 - v0)
Normal(t) ==
  Cross(Sub(Position(Triangle(t)[2]), Position(Triangle(t)[1])),
        Sub(Position(Triangle(t)[3]), Position(Triangle(t)[1])))

\* a face of the cube: the axis it is perpendicular to and the side it is on
Faces == {<<axis, side>> : axis \in 1..3, side \in {-1, 1}}

OnFace(t, f) == \A k \in 1..3 : Position(Triangle(t)[k])[f[1]] = f[2]

\* the normal of t points straight out of face f
Outward(t, f) ==
  /\ Normal(t)[f[1]] * f[2] > 0
  /\ \A axis \in (1..3) \ {f[1]} : Normal(t)[axis] = 0

\* the winding of t for a viewer outside the cube, in front of face f
Winding(t, f) == IF Normal(t)[f[1]] * f[2] > 0 THEN "Ccw" ELSE "Cw"

Culled(t, f) == cull_mode = "Back" /\ Winding(t, f) # front_face

(* ---------------------------------------------------------------------- *)
(* Properties                                                              *)
(* ---------------------------------------------------------------------- *)

\* C1: a call of State::resize with a zero width or a zero height changes
\* nothing, whatever the state before it: the stored size, the surface
\* configuration (the one State keeps and the one applied to the surface) and
\* the camera, aspect included, are as before, and Surface::configure is not
\* called.
C1_ResizeZeroIsNoOp ==
  [][ (event'.type = "resize" /\ IsZero(event'.size)) =>
        /\ state' = state
        /\ surface' = surface
        /\ cam_at_update' = cam_at_update
        /\ Times(calls', "resize") = 1
        /\ Times(calls', "configure") = 0 ]_vars

\* a zero-sized resize arrives after input, update and a real resize have
\* moved the state away from the one State::new built
C1_Witness ==
  /\ event.type = "resize"
  /\ event.size = PhysicalSize(0, MaxDim)
  /\ state.size = PhysicalSize(MaxDim, 1)
  /\ state.camera.aspect = F32Div(MaxDim, 1)
  /\ state.camera.eye # Eye(InitDist, 0)
  /\ state.camera_controller.is_left_pressed

\* C2: a Resized or ScaleFactorChanged event carrying a size (w, h) with
\* w > 0 and h > 0 leaves the stored size and the surface configuration at
\* exactly (w, h), has reconfigured the surface once with (w, h), and leaves
\* the camera aspect at exactly w / h, whatever resizes came before.
C2_ResizeSetsSizeAndAspect ==
  (event.type \in {"Resized", "ScaleFactorChanged"} /\ ~IsZero(event.size)) =>
     /\ state.size = event.size
     /\ state.config.width = event.size.width
     /\ state.config.height = event.size.height
     /\ surface = [width |-> event.size.width, height |-> event.size.height]
     /\ Times(calls, "configure") = 1
     /\ \A i \in At(calls, "configure") :
           calls[i].arg = <<event.size.width, event.size.height>>
     /\ state.camera.aspect.den > 0
     /\ state.camera.aspect.num * event.size.height
          = state.camera.aspect.den * event.size.width

\* a scale-factor change to a non-square size, the uniform last uploaded
\* still being that of another aspect (so an earlier size was different)
C2_Witness ==
  /\ event.type = "ScaleFactorChanged"
  /\ event.size = PhysicalSize(1, MaxDim)
  /\ state.camera.aspect = [num |-> 1, den |-> MaxDim]
  /\ state.camera_buffer # update_view_proj(state.camera)

\* C3: in a frame tick whose render reports a lost surface, the callback then
\* calls resize with the stored size, which reconfigures the surface with
\* that size, after render has returned; exit is not requested, and a
\* further frame tick can run.
C3_LostReconfigures ==
  (event.type = "RedrawRequested" /\ event.acquired = "Lost") =>
     /\ Len(at_render) = 1
     /\ Times(calls, "resize") = 1
     /\ Times(calls, "configure") = 1
     /\ Before(calls, "get_current_texture", "resize")
     /\ Before(calls, "resize", "configure")
     /\ \A i \in At(calls, "resize") :
           calls[i].arg = <<at_render[1].state.size.width,
                            at_render[1].state.size.height>>
     /\ \A i \in At(calls, "configure") :
           calls[i].arg = <<state.size.width, state.size.height>>
     /\ state.size = at_render[1].state.size
     /\ surface = [width |-> state.size.width, height |-> state.size.height]
     /\ control_flow = "Poll"
     /\ ENABLED RedrawRequested

C3_Witness ==
  /\ event.type = "RedrawRequested"
  /\ event.acquired = "Lost"
  /\ state.size = PhysicalSize(MaxDim, 1)
  /\ Times(calls, "configure") = 1

\* C4: in a frame tick whose render reports out of device memory, the
\* callback sets ControlFlow::Exit and does nothing else: no resize, no
\* Surface::configure, the surface configuration as it was.
C4_OutOfMemoryExits ==
  (event.type = "RedrawRequested" /\ event.acquired = "OutOfMemory") =>
     /\ control_flow = "Exit"
     /\ Times(calls, "resize") = 0
     /\ Times(calls, "configure") = 0
     /\ Len(at_render) = 1
     /\ surface = at_render[1].surface
     /\ state = at_render[1].state

C4_Witness ==
  /\ event.type = "RedrawRequested"
  /\ event.acquired = "OutOfMemory"
  /\ control_flow = "Exit"
  /\ state.size = PhysicalSize(MaxDim, MaxDim)

\* C5: in a frame tick whose acquisition fails with an error other than Lost
\* and OutOfMemory, render changes nothing: nothing is drawn, submitted or
\* presented, State and the surface configuration are as they were when
\* render was entered, the surface is not reconfigured, exit is not
\* requested, and a further frame tick can run.
C5_TransientErrorSkipsFrame ==
  (event.type = "RedrawRequested"
     /\ event.acquired \in AcquireErrors \ {"Lost", "OutOfMemory"}) =>
     /\ Times(calls, "draw_indexed") = 0
     /\ Times(calls, "submit") = 0
     /\ Times(calls, "present") = 0
     /\ Times(calls, "resize") = 0
     /\ Times(calls, "configure") = 0
     /\ Len(at_render) = 1
     /\ state = at_render[1].state
     /\ surface = at_render[1].surface
     /\ control_flow = "Poll"
     /\ ENABLED RedrawRequested

C5_Witness ==
  /\ event.type = "RedrawRequested"
  /\ event.acquired = "Timeout"
  /\ Times(calls, "log::error") = 1
  /\ state.size = PhysicalSize(1, MaxDim)

\* C6: a press or release of a movement key delivered to the callback is
\* passed to State::input, and the controller's flag for that key is then
\* what the event says.
C6_KeysReachController ==
  (event.type = "KeyboardInput" /\ event.key \in MovementKeys) =>
     /\ Times(calls, "input") = 1
     /\ KeyFlag(state.camera_controller, event.key) = event.pressed

\* C7: a frame tick runs update once and render once, update finishing (its
\* buffer write done) before render is entered; no handler enters render
\* without an update before it; and a resize in a tick comes only after
\* render has finished.
C7_UpdateThenRender ==
  /\ event.type = "RedrawRequested" =>
        /\ Times(calls, "update") = 1
        /\ Times(calls, "render") = 1
  /\ Times(calls, "render") > 0 =>
        /\ Times(calls, "update") > 0
        /\ Before(calls, "update", "render")
        /\ Before(calls, "update_camera", "render")
        /\ Before(calls, "update_view_proj", "render")
        /\ Before(calls, "write_buffer", "render")
        /\ Before(calls, "render", "resize")
        /\ Before(calls, "get_current_texture", "resize")
        /\ Before(calls, "present", "resize")

\* a tick in which all three of update, render and resize ran
C7_Witness ==
  /\ event.type = "RedrawRequested"
  /\ Times(calls, "write_buffer") = 1
  /\ Times(calls, "get_current_texture") = 1
  /\ Times(calls, "resize") = 1

\* C8: the camera uniform and the camera buffer are the view-projection of the
\* camera as the most recent update left it (as State::new built it, before
\* any update); and whenever render is entered the buffer is the
\* view-projection of the camera as it then is, eye and aspect.
C8_UniformFollowsUpdate ==
  /\ state.camera_uniform = update_view_proj(cam_at_update)
  /\ state.camera_buffer = update_view_proj(cam_at_update)
  /\ Len(at_render) = 1 =>
        at_render[1].state.camera_buffer
          = update_view_proj(at_render[1].state.camera)

\* a resize has changed the aspect and no update has run since: the buffer
\* is that of the camera of the last update, not of the camera as it is
C8_Witness ==
  /\ event.type = "Resized"
  /\ state.camera_buffer # update_view_proj(state.camera)
  /\ state.camera_buffer = update_view_proj(cam_at_update)

\* C9: a render whose acquisition succeeds issues one draw_indexed, for the
\* indices 0..36, base vertex 0 and the instances 0..1, then submits once and
\* presents once, whatever the camera, the controller and the calls before.
C9_OneDrawOf36 ==
  (event.type = "render" /\ event.acquired = "Ok") =>
     /\ Times(calls, "draw_indexed") = 1
     /\ \A i \in At(calls, "draw_indexed") : calls[i].arg = <<0, 36, 0, 0, 1>>
     /\ Times(calls, "submit") = 1
     /\ Times(calls, "present") = 1
     /\ Before(calls, "draw_indexed", "submit")
     /\ Before(calls, "submit", "present")

\* a successful render with keys held, the eye moved and the window resized
C9_Witness ==
  /\ event.type = "render"
  /\ event.acquired = "Ok"
  /\ state.camera_controller.is_forward_pressed
  /\ state.camera_controller.is_right_pressed
  /\ state.camera.eye # Eye(InitDist, 0)
  /\ state.camera_buffer # update_view_proj(state.camera)

\* C10: the index table has 36 entries, each the index of one of the 8
\* vertices; the 12 triangles a draw covers put exactly 2 on each of the 6
\* faces, every triangle lying on a face with its normal
\* (v1 - v0) x (v2 - v0) pointing out of that face, so that none is culled
\* for a viewer outside the cube.
C10_CubeFacesOutward ==
  /\ Len(INDICES) = 36
  /\ Len(VERTICES) = 8
  /\ \A i \in 1..Len(INDICES) : INDICES[i] \in 0..(Len(VERTICES) - 1)
  /\ Cardinality(Triangles(state.num_indices)) = 12
  /\ \A f \in Faces :
        Cardinality({t \in Triangles(state.num_indices) : OnFace(t, f)}) = 2
  /\ \A t \in Triangles(state.num_indices) :
        \E f \in Faces : OnFace(t, f) /\ Outward(t, f) /\ ~Culled(t, f)

\* the cube has been drawn by a successful render
C10_Witness ==
  /\ event.type = "RedrawRequested"
  /\ event.acquired = "Ok"
  /\ \E i \in At(calls, "draw_indexed") :
        calls[i].arg[2] = Len(INDICES)

====
